---- MODULE Spec2Model ----
(***************************************************************************)
(* The styled-text engine of src/src/styled.rs: a byte buffer with a list  *)
(* of (attribute, byte range) spans, the interval algebra below it and the *)
(* operations that edit it.                                                *)
(*                                                                         *)
(* A Range<usize> a..b is the record [start |-> a, end |-> b]; an          *)
(* Option<T> is a sequence of length at most one (None is << >>, Some(x)   *)
(* is <<x>>); a String is a sequence of one-byte characters, so len() is   *)
(* Len; a Vec is a sequence.                                               *)
(***************************************************************************)
EXTENDS Integers, Sequences, FiniteSets, TLC

VARIABLES
    source,   \* StyledString.source of the value being edited
    spans,    \* StyledString.spans of the value being edited
    op,       \* the operation that produced this state
    pre,      \* the value [source, spans] the operation was called on
    arg,      \* the operation's arguments
    out,      \* what the operation returned (non-mutating operations)
    status,   \* "ok", or "panicked" once an operation failed fatally
    steps,    \* operations applied since construction
    hist      \* the spans add_span_intersect was given so far (SpecChain)

vars == <<source, spans, op, pre, arg, out, status, steps, hist>>

-----------------------------------------------------------------------------
(* Bounds of the model. *)

\* Largest position a range of the interval-algebra specification mentions.
MaxPos == 4
\* Longest buffer an operation of Spec may build.
MaxLen == 4
\* Longest span list an operation of Spec may build.
MaxSpans == 3
\* Operations applied to one value in Spec.
MaxSteps == 2
\* Longest buffer Spec constructs a value from.
MaxInitLen == 2
\* Longest text an operation of Spec is given.
MaxText == 1
\* Buffer length, and longest span list, add_span_intersect is called on in
\* SpecMerge.
MergeLen == 4
MergeSpans == 2
\* Buffer length, and number of add_span_intersect calls, in SpecChain.
ChainLen == 5
MaxAdds == 3
\* Longest buffer, and longest span list, insert_str is called on in
\* SpecInsert.
InsLen == 2
InsSpans == 3
\* Longest buffer, and longest span list, a value is constructed from in
\* SpecConstruct.
ConsLen == 2
ConsSpans == 2
\* Longest buffer, longest span list and longest pattern of SpecReplace.
RepLen == 3
RepSpans == 1
MaxFrom == 2
\* Longest buffer and longest span list of SpecEdit.
EditLen == 2
EditSpans == 2
\* Longest buffer and longest span list of SpecFlatten.
FlatLen == 3
FlatSpans == 2

-----------------------------------------------------------------------------
(* Values. *)

None == << >>
Some(x) == <<x>>
IsSome(o) == Len(o) = 1
Unwrap(o) == o[1]

Range(s, e) == [start |-> s, end |-> e]

Max(a, b) == IF a >= b THEN a ELSE b
Min(a, b) == IF a <= b THEN a ELSE b

\* cursive's Style: a set of effects and an optional colour.
Style(effects, color) == [effects |-> effects, color |-> color]
plain_style == Style({}, "inherit")
simple_style == Style({"Underline"}, "inherit")
style2 == Style({}, "ColorX")
style3 == Style({"Italic", "Bold"}, "inherit")
style4 == Style({"Bold"}, "ColorY")

\* Style::combine(self, other): the effects of both; other's colour when it
\* sets one.
combine(a, b) ==
    Style(a.effects \cup b.effects,
          IF b.color # "inherit" THEN b.color ELSE a.color)

-----------------------------------------------------------------------------
(* Interval algebra. *)

\* Range<usize>::is_empty: !(start < end), so a reversed range is empty.
range_is_empty(r) == ~(r.start < r.end)

\* Range<usize>::contains
range_contains(r, idx) == r.start <= idx /\ idx < r.end

\* range_intersection with the boundary tests off by one: touching ranges
\* are taken to overlap.
range_intersection_touching(r1, r2) ==
    IF range_is_empty(r1) \/ range_is_empty(r2)
       \/ r1.start > r2.end \/ r2.start > r1.end
    THEN None
    ELSE Some(Range(Max(r1.start, r2.start), Min(r1.end, r2.end)))

range_intersection(r1, r2) ==
    IF range_is_empty(r1) \/ range_is_empty(r2)
       \/ r1.start >= r2.end \/ r2.start >= r1.end
    THEN None
    ELSE Some(Range(Max(r1.start, r2.start), Min(r1.end, r2.end)))

\* range_remove losing the right remainder when there is a left one.
range_remove_no_right(r1, re) ==
    IF range_is_empty(re) /\ ~range_is_empty(r1) THEN <<Some(r1), None>>
    ELSE IF range_is_empty(re) \/ range_is_empty(r1) \/ r1 = re
    THEN <<None, None>>
    ELSE LET i == range_intersection(r1, re) IN
         IF ~IsSome(i) THEN <<Some(r1), None>>
         ELSE LET re2 == Unwrap(i) IN
              IF re2.start > r1.start
              THEN <<Some(Range(r1.start, re2.start)), None>>
              ELSE IF re2.end >= r1.end
                   THEN <<None, None>>
                   ELSE <<None, Some(Range(re2.end, r1.end))>>

\* range_remove reporting a lone right remainder as the first component.
range_remove_right_first(r1, re) ==
    IF range_is_empty(re) /\ ~range_is_empty(r1) THEN <<Some(r1), None>>
    ELSE IF range_is_empty(re) \/ range_is_empty(r1) \/ r1 = re
    THEN <<None, None>>
    ELSE LET i == range_intersection(r1, re) IN
         IF ~IsSome(i) THEN <<Some(r1), None>>
         ELSE LET re2 == Unwrap(i) IN
              IF re2.start > r1.start
              THEN LET left == Range(r1.start, re2.start) IN
                   IF re2.end >= r1.end
                   THEN <<Some(left), None>>
                   ELSE <<Some(left), Some(Range(re2.end, r1.end))>>
              ELSE IF re2.end >= r1.end
                   THEN <<None, None>>
                   ELSE <<Some(Range(re2.end, r1.end)), None>>

\* Returns <<left, right>>, each an Option<Range>.
range_remove(r1, re) ==
    IF range_is_empty(re) /\ ~range_is_empty(r1) THEN <<Some(r1), None>>
    ELSE IF range_is_empty(re) \/ range_is_empty(r1) \/ r1 = re
    THEN <<None, None>>
    ELSE LET i == range_intersection(r1, re) IN
         IF ~IsSome(i) THEN <<Some(r1), None>>
         ELSE LET re2 == Unwrap(i) IN
              IF re2.start > r1.start
              THEN LET left == Range(r1.start, re2.start) IN
                   IF re2.end >= r1.end
                   THEN <<Some(left), None>>
                   ELSE <<Some(left), Some(Range(re2.end, r1.end))>>
              ELSE IF re2.end >= r1.end
                   THEN <<None, None>>
                   ELSE <<None, Some(Range(re2.end, r1.end))>>

-----------------------------------------------------------------------------
(* StyledIndexedSpan. *)

new_range(range, attr) == [attr |-> attr, range |-> range]

span_is_empty(span) == range_is_empty(span.range)

offset(span, n) ==
    [span EXCEPT !.range = Range(span.range.start + n, span.range.end + n)]

contains(span, idx) == range_contains(span.range, idx)

intersection(span, range) == range_intersection(span.range, range)

\* split_at keeping an empty left half.
split_at_keeps_empty_left(span, idx) ==
    IF contains(span, idx)
    THEN LET l == Range(span.range.start, idx)
             r == Range(idx, span.range.end)
         IN << Some(new_range(l, span.attr)),
               IF range_is_empty(r) THEN None ELSE Some(new_range(r, span.attr)) >>
    ELSE <<None, None>>

\* Returns <<left, right>>, each an Option<StyledIndexedSpan>.
split_at(span, idx) ==
    IF contains(span, idx)
    THEN LET l == Range(span.range.start, idx)
             r == Range(idx, span.range.end)
         IN << IF range_is_empty(l) THEN None ELSE Some(new_range(l, span.attr)),
               IF range_is_empty(r) THEN None ELSE Some(new_range(r, span.attr)) >>
    ELSE <<None, None>>

\* resolve(): &source[range] fails fatally when the range is reversed or ends
\* past the buffer.
resolve_ok(span, src) ==
    span.range.start <= span.range.end /\ span.range.end <= Len(src)

-----------------------------------------------------------------------------
(* StyledString. *)

StyledString(src, sps) == [source |-> src, spans |-> sps]

\* impl From<S> for StyledString
From(src) == StyledString(src, << >>)

\* with_spans: the assert! on every span's end.
with_spans_ok(src, sps) ==
    \A i \in 1..Len(sps) : sps[i].range.end <= Len(src)

\* with_spans(source, spans): [source, spans, panicked]; nothing is built when
\* the assert fails.
with_spans(src, sps) ==
    IF with_spans_ok(src, sps)
    THEN [source |-> src, spans |-> sps, panicked |-> FALSE]
    ELSE [source |-> << >>, spans |-> << >>, panicked |-> TRUE]

\* String::insert_str
string_insert(src, idx, text) ==
    SubSeq(src, 1, idx) \o text \o SubSeq(src, idx + 1, Len(src))

\* insert_loop shifting every span that starts at or after idx, whether or
\* not a span containing idx was found.
RECURSIVE insert_loop_shift_after(_, _, _, _, _, _, _)
insert_loop_shift_after(old, i, acc, found, idx, n, mode) ==
    IF i > Len(old) THEN [spans |-> acc, panicked |-> FALSE]
    ELSE LET span == old[i] IN
         IF found
         THEN IF mode = "BreakApart"
              THEN insert_loop_shift_after(old, i + 1, Append(acc, offset(span, n)),
                                           found, idx, n, mode)
              ELSE [spans |-> acc, panicked |-> TRUE]
         ELSE IF contains(span, idx)
         THEN IF mode = "BreakApart"
              THEN LET lr == split_at(span, idx)
                       withLeft == IF IsSome(lr[1])
                                   THEN Append(acc, Unwrap(lr[1])) ELSE acc
                       withRight == IF IsSome(lr[2])
                                    THEN Append(withLeft, offset(Unwrap(lr[2]), n))
                                    ELSE withLeft
                   IN insert_loop_shift_after(old, i + 1, withRight, TRUE, idx, n, mode)
              ELSE [spans |-> acc, panicked |-> TRUE]
         ELSE insert_loop_shift_after(
                  old, i + 1,
                  Append(acc, IF span.range.start >= idx THEN offset(span, n) ELSE span),
                  found, idx, n, mode)

\* insert_loop treating Extend as BreakApart instead of refusing it.
RECURSIVE insert_loop_extend_splits(_, _, _, _, _, _, _)
insert_loop_extend_splits(old, i, acc, found, idx, n, mode) ==
    IF i > Len(old) THEN [spans |-> acc, panicked |-> FALSE]
    ELSE LET span == old[i] IN
         IF found
         THEN insert_loop_extend_splits(old, i + 1, Append(acc, offset(span, n)),
                                        found, idx, n, mode)
         ELSE IF contains(span, idx)
         THEN LET lr == split_at(span, idx)
                  withLeft == IF IsSome(lr[1])
                              THEN Append(acc, Unwrap(lr[1])) ELSE acc
                  withRight == IF IsSome(lr[2])
                               THEN Append(withLeft, offset(Unwrap(lr[2]), n))
                               ELSE withLeft
              IN insert_loop_extend_splits(old, i + 1, withRight, TRUE, idx, n, mode)
         ELSE insert_loop_extend_splits(old, i + 1, Append(acc, span),
                                        found, idx, n, mode)

\* insert_loop that, once a span containing idx was split, shifts only the
\* later spans that begin at or after idx (a positional repair).
RECURSIVE insert_loop_positional(_, _, _, _, _, _, _)
insert_loop_positional(old, i, acc, found, idx, n, mode) ==
    IF i > Len(old) THEN [spans |-> acc, panicked |-> FALSE]
    ELSE LET span == old[i] IN
         IF found
         THEN IF mode = "BreakApart"
              THEN insert_loop_positional(
                       old, i + 1,
                       Append(acc, IF span.range.start >= idx
                                   THEN offset(span, n) ELSE span),
                       found, idx, n, mode)
              ELSE [spans |-> acc, panicked |-> TRUE]
         ELSE IF contains(span, idx)
         THEN IF mode = "BreakApart"
              THEN LET lr == split_at(span, idx)
                       withLeft == IF IsSome(lr[1])
                                   THEN Append(acc, Unwrap(lr[1])) ELSE acc
                       withRight == IF IsSome(lr[2])
                                    THEN Append(withLeft, offset(Unwrap(lr[2]), n))
                                    ELSE withLeft
                   IN insert_loop_positional(old, i + 1, withRight, TRUE, idx, n, mode)
              ELSE [spans |-> acc, panicked |-> TRUE]
         ELSE insert_loop_positional(old, i + 1, Append(acc, span),
                                     found, idx, n, mode)

\* The loop of insert_str over the old span list, from position i on: acc is
\* self.spans so far.  Returns [spans, panicked].
RECURSIVE insert_loop(_, _, _, _, _, _, _)
insert_loop(old, i, acc, found, idx, n, mode) ==
    IF i > Len(old) THEN [spans |-> acc, panicked |-> FALSE]
    ELSE LET span == old[i] IN
         IF found
         THEN IF mode = "BreakApart"
              THEN insert_loop(old, i + 1, Append(acc, offset(span, n)),
                               found, idx, n, mode)
              ELSE [spans |-> acc, panicked |-> TRUE]
         ELSE IF contains(span, idx)
         THEN IF mode = "BreakApart"
              THEN LET lr == split_at(span, idx)
                       withLeft == IF IsSome(lr[1])
                                   THEN Append(acc, Unwrap(lr[1])) ELSE acc
                       withRight == IF IsSome(lr[2])
                                    THEN Append(withLeft, offset(Unwrap(lr[2]), n))
                                    ELSE withLeft
                   IN insert_loop(old, i + 1, withRight, TRUE, idx, n, mode)
              ELSE [spans |-> acc, panicked |-> TRUE]
         ELSE insert_loop(old, i + 1, Append(acc, span), found, idx, n, mode)

\* insert_str that repairs the spans but leaves the buffer as it was.
insert_str_spans_only(self, idx, text, mode) ==
    LET r == insert_loop(self.spans, 1, << >>, FALSE, idx, Len(text), mode)
    IN [source |-> self.source, spans |-> r.spans, panicked |-> r.panicked]

\* insert_str(&mut self, idx, text, mode): [source, spans, panicked].
insert_str(self, idx, text, mode) ==
    LET r == insert_loop(self.spans, 1, << >>, FALSE, idx, Len(text), mode)
    IN [source |-> string_insert(self.source, idx, text),
        spans |-> r.spans, panicked |-> r.panicked]

\* merge_pieces that keeps the existing span whole beside the combined
\* intersection.
merge_pieces_keeps_span(span, i, new_span) ==
    <<span, new_range(i, combine(span.attr, new_span.attr))>>

\* merge_pieces combining the attributes the other way round.
merge_pieces_swapped(span, i, new_span) ==
    LET lr == range_remove(span.range, i)
        left == IF IsSome(lr[1])
                THEN <<new_range(Unwrap(lr[1]), span.attr)>> ELSE << >>
        right == IF IsSome(lr[2])
                 THEN <<new_range(Unwrap(lr[2]), span.attr)>> ELSE << >>
    IN left \o <<new_range(i, combine(new_span.attr, span.attr))>> \o right

\* The pieces one existing span leaves in resulting_spans when it intersects
\* the new span in i.
merge_pieces(span, i, new_span) ==
    LET lr == range_remove(span.range, i)
        left == IF IsSome(lr[1])
                THEN <<new_range(Unwrap(lr[1]), span.attr)>> ELSE << >>
        right == IF IsSome(lr[2])
                 THEN <<new_range(Unwrap(lr[2]), span.attr)>> ELSE << >>
    IN left \o <<new_range(i, combine(span.attr, new_span.attr))>> \o right

\* merge_loop taking the end of the last intersection, not of the furthest
\* one, as the end of the used part.
RECURSIVE merge_loop_last_end(_, _, _, _, _)
merge_loop_last_end(old, i, acc, used, new_span) ==
    IF i > Len(old) THEN [spans |-> acc, used |-> used]
    ELSE LET span == old[i]
             x == intersection(span, new_span.range)
         IN IF IsSome(x)
            THEN merge_loop_last_end(old, i + 1,
                                     acc \o merge_pieces(span, Unwrap(x), new_span),
                                     Range(used.start, Unwrap(x).end),
                                     new_span)
            ELSE merge_loop_last_end(old, i + 1, Append(acc, span), used, new_span)

\* merge_loop taking the smaller end where the code takes the larger, so
\* used_new_span never grows.
RECURSIVE merge_loop_min_end(_, _, _, _, _)
merge_loop_min_end(old, i, acc, used, new_span) ==
    IF i > Len(old) THEN [spans |-> acc, used |-> used]
    ELSE LET span == old[i]
             x == intersection(span, new_span.range)
         IN IF IsSome(x)
            THEN merge_loop_min_end(old, i + 1,
                                    acc \o merge_pieces(span, Unwrap(x), new_span),
                                    Range(used.start, Min(used.end, Unwrap(x).end)),
                                    new_span)
            ELSE merge_loop_min_end(old, i + 1, Append(acc, span), used, new_span)

\* The loop of add_span_intersect over the old span list, from position i on.
\* Returns [spans |-> resulting_spans, used |-> used_new_span].
RECURSIVE merge_loop(_, _, _, _, _)
merge_loop(old, i, acc, used, new_span) ==
    IF i > Len(old) THEN [spans |-> acc, used |-> used]
    ELSE LET span == old[i]
             x == intersection(span, new_span.range)
         IN IF IsSome(x)
            THEN merge_loop(old, i + 1,
                            acc \o merge_pieces(span, Unwrap(x), new_span),
                            Range(used.start, Max(used.end, Unwrap(x).end)),
                            new_span)
            ELSE merge_loop(old, i + 1, Append(acc, span), used, new_span)

\* add_span_intersect that takes the spans out of self before the emptiness
\* test, so the early return leaves self without spans.
add_span_intersect_swap_first(self, new_span) ==
    IF span_is_empty(new_span) THEN << >>
    ELSE LET r == merge_loop(self.spans, 1, << >>,
                             Range(new_span.range.start, new_span.range.start),
                             new_span)
             lr == range_remove(new_span.range, r.used)
             left == IF IsSome(lr[1])
                     THEN <<new_range(Unwrap(lr[1]), new_span.attr)>> ELSE << >>
             right == IF IsSome(lr[2])
                      THEN <<new_range(Unwrap(lr[2]), new_span.attr)>> ELSE << >>
         IN r.spans \o left \o right

\* add_span_intersect that pushes what is left of the new span before the
\* existing spans.
add_span_intersect_new_first(self, new_span) ==
    IF span_is_empty(new_span) THEN self.spans
    ELSE LET r == merge_loop(self.spans, 1, << >>,
                             Range(new_span.range.start, new_span.range.start),
                             new_span)
             lr == range_remove(new_span.range, r.used)
             left == IF IsSome(lr[1])
                     THEN <<new_range(Unwrap(lr[1]), new_span.attr)>> ELSE << >>
             right == IF IsSome(lr[2])
                      THEN <<new_range(Unwrap(lr[2]), new_span.attr)>> ELSE << >>
         IN left \o right \o r.spans

\* add_span_intersect(&mut self, new_span): the new span list.
add_span_intersect(self, new_span) ==
    IF span_is_empty(new_span) THEN self.spans
    ELSE LET r == merge_loop(self.spans, 1, << >>,
                             Range(new_span.range.start, new_span.range.start),
                             new_span)
             lr == range_remove(new_span.range, r.used)
             left == IF IsSome(lr[1])
                     THEN <<new_range(Unwrap(lr[1]), new_span.attr)>> ELSE << >>
             right == IF IsSome(lr[2])
                      THEN <<new_range(Unwrap(lr[2]), new_span.attr)>> ELSE << >>
         IN r.spans \o left \o right

\* append_source
append_source(src, text) == src \o text

\* append_owned_spans(&mut self, spans), called by append after append_source
\* has already grown self.source: the offset is the length of the buffer at
\* the time of the call.
append_owned_spans(self, sps) ==
    LET off == Len(self.source) IN
    self.spans \o [i \in 1..Len(sps) |-> offset(sps[i], off)]

\* append(&mut self, other)
append(self, other) ==
    LET grown == StyledString(append_source(self.source, other.source), self.spans)
    IN StyledString(grown.source, append_owned_spans(grown, other.spans))

\* append_styled(&mut self, other, style)
append_styled_start_after(self, text, style) ==
    LET start == Len(append_source(self.source, text))
        end == Len(text) + start
    IN StyledString(append_source(self.source, text),
                    Append(self.spans, new_range(Range(start, end), style)))

append_styled(self, text, style) ==
    LET start == Len(self.source)
        end == Len(text) + start
    IN StyledString(append_source(self.source, text),
                    Append(self.spans, new_range(Range(start, end), style)))

\* match_indices that goes on one byte after a match, so matches overlap.
RECURSIVE match_indices_overlapping(_, _, _)
match_indices_overlapping(src, from, pos) ==
    IF Len(from) = 0
    THEN IF pos > Len(src) THEN << >>
         ELSE <<pos>> \o match_indices_overlapping(src, from, pos + 1)
    ELSE IF pos + Len(from) > Len(src) THEN << >>
    ELSE IF SubSeq(src, pos + 1, pos + Len(from)) = from
    THEN <<pos>> \o match_indices_overlapping(src, from, pos + 1)
    ELSE match_indices_overlapping(src, from, pos + 1)

\* match_indices whose empty pattern does not match at the end of the text.
RECURSIVE match_indices_no_end(_, _, _)
match_indices_no_end(src, from, pos) ==
    IF Len(from) = 0
    THEN IF pos >= Len(src) THEN << >>
         ELSE <<pos>> \o match_indices_no_end(src, from, pos + 1)
    ELSE IF pos + Len(from) > Len(src) THEN << >>
    ELSE IF SubSeq(src, pos + 1, pos + Len(from)) = from
    THEN <<pos>> \o match_indices_no_end(src, from, pos + Len(from))
    ELSE match_indices_no_end(src, from, pos + 1)

\* str::match_indices(from): the starts of the matches found left to right
\* without overlap from byte pos on; an empty pattern matches at every
\* boundary.
RECURSIVE match_indices(_, _, _)
match_indices(src, from, pos) ==
    IF Len(from) = 0
    THEN IF pos > Len(src) THEN << >>
         ELSE <<pos>> \o match_indices(src, from, pos + 1)
    ELSE IF pos + Len(from) > Len(src) THEN << >>
    ELSE IF SubSeq(src, pos + 1, pos + Len(from)) = from
    THEN <<pos>> \o match_indices(src, from, pos + Len(from))
    ELSE match_indices(src, from, pos + 1)

\* The loop of simple_replace without the text after the last match.
RECURSIVE replace_loop_no_tail(_, _, _, _, _, _, _)
replace_loop_no_tail(src, ms, k, last_end, result, from, to) ==
    IF k > Len(ms)
    THEN result
    ELSE LET start == ms[k]
             before_content == SubSeq(src, last_end + 1, start)
         IN replace_loop_no_tail(src, ms, k + 1, start + Len(from),
                         append_source(append_source(result, before_content), to),
                         from, to)

\* The loop of simple_replace over the matches, from match k on.
RECURSIVE replace_loop(_, _, _, _, _, _, _)
replace_loop(src, ms, k, last_end, result, from, to) ==
    IF k > Len(ms)
    THEN append_source(result, SubSeq(src, last_end + 1, Len(src)))
    ELSE LET start == ms[k]
             before_content == SubSeq(src, last_end + 1, start)
         IN replace_loop(src, ms, k + 1, start + Len(from),
                         append_source(append_source(result, before_content), to),
                         from, to)

\* simple_replace(&self, from, to)
simple_replace(self, from, to) ==
    StyledString(replace_loop(self.source, match_indices(self.source, from, 0),
                              1, 0, << >>, from, to),
                 << >>)

\* usize::saturating_sub
saturating_sub(a, b) == IF a >= b THEN a - b ELSE 0

\* match_replaced_indices counting the matches from one.
match_replaced_indices_from_one(self, from, to) ==
    LET ms == match_indices(self.source, from, 0) IN
    [k \in 1..Len(ms) |->
        LET i == k
            start == ms[k]
            matched_bytes == i * Len(from)
            replaced_bytes == i * Len(to)
            new_start == saturating_sub(start, matched_bytes) + replaced_bytes
        IN [from_range |-> Range(start, start + Len(from)),
            to_range |-> Range(new_start, new_start + Len(to))]]

\* match_replaced_indices(&self, from, to): the pairs (from_range, to_range)
\* the iterator yields, in order; i is enumerate()'s index, from 0.  The
\* saturating additions never saturate at these sizes.
match_replaced_indices(self, from, to) ==
    LET ms == match_indices(self.source, from, 0) IN
    [k \in 1..Len(ms) |->
        LET i == k - 1
            start == ms[k]
            matched_bytes == i * Len(from)
            replaced_bytes == i * Len(to)
            new_start == saturating_sub(start, matched_bytes) + replaced_bytes
        IN [from_range |-> Range(start, start + Len(from)),
            to_range |-> Range(new_start, new_start + Len(to))]]

\* replace_styled that returns simple_replace's value as it is, spans dropped.
replace_styled_drops_spans(self, from, to) == simple_replace(self, from, to)

\* replace_styled(&self, from, to)
replace_styled(self, from, to) ==
    LET result == simple_replace(self, from, to)
    IN StyledString(result.source, self.spans)

\* replace(&self, from, to)
replace(self, from, to) == replace_styled(self, from, to)

\* into_loop that goes on from the span's start, not from its end.
RECURSIVE into_loop_from_start(_, _, _, _)
into_loop_from_start(sps, i, acc, last_position) ==
    IF i > Len(sps) THEN [spans |-> acc, last_position |-> last_position]
    ELSE LET span == sps[i]
             range == Range(last_position, span.range.start)
             gap == IF ~range_is_empty(range)
                    THEN <<new_range(range, plain_style)>> ELSE << >>
         IN into_loop_from_start(sps, i + 1, (acc \o gap) \o <<span>>,
                                 span.range.start)

\* The loop of the conversion to cursive's StyledString over self.spans, from
\* position i on: acc is the emitted list.
RECURSIVE into_loop(_, _, _, _)
into_loop(sps, i, acc, last_position) ==
    IF i > Len(sps) THEN [spans |-> acc, last_position |-> last_position]
    ELSE LET span == sps[i]
             range == Range(last_position, span.range.start)
             gap == IF ~range_is_empty(range)
                    THEN <<new_range(range, plain_style)>> ELSE << >>
         IN into_loop(sps, i + 1, (acc \o gap) \o <<span>>, span.range.end)

\* impl Into<CursiveStyledString> for StyledString: the emitted spans, and
\* whether into_cursive failed on one of them.
into(self) ==
    LET r == into_loop(self.spans, 1, << >>, 0)
        all == IF r.last_position < Len(self.source)
               THEN Append(r.spans,
                           new_range(Range(r.last_position, Len(self.source)),
                                     plain_style))
               ELSE r.spans
    IN [spans |-> all,
        panicked |-> \E i \in 1..Len(all) : ~resolve_ok(all[i], self.source)]

-----------------------------------------------------------------------------
(* Inputs. *)

Chars == {"a", "b"}

\* Every string over Chars of length at most n.
Strings(n) == UNION {[1..k -> Chars] : k \in 0..n}

\* Every range a..b over the positions 0..n, reversed and empty ones included.
Ranges(n) == {Range(a, b) : a \in 0..n, b \in 0..n}

Styles == {simple_style, style2}

Modes == {"BreakApart", "Extend"}

NoArg == [none |-> TRUE]

Self == StyledString(source, spans)

-----------------------------------------------------------------------------
(* Spec: a value is constructed by From or with_spans and then edited.     *)

\* Construction: From(text), or with_spans(text, spans) where the assert
\* passed.
Init ==
    /\ source \in Strings(MaxInitLen)
    /\ spans \in {<< >>} \cup
                 {<<new_range(r, st)>> : r \in Ranges(Len(source)), st \in Styles}
    /\ with_spans_ok(source, spans)
    /\ op = IF spans = << >> THEN "From" ELSE "with_spans"
    /\ pre = Self
    /\ arg = NoArg
    /\ out = None
    /\ status = "ok"
    /\ steps = 0
    /\ hist = << >>

\* The bookkeeping every operation shares.
Called(name, a) ==
    /\ status = "ok"
    /\ steps < MaxSteps
    /\ steps' = steps + 1
    /\ op' = name
    /\ pre' = Self
    /\ arg' = a
    /\ UNCHANGED hist

\* A mutator leaves `result` in place of the value.
Becomes(result) ==
    /\ Len(result.source) <= MaxLen
    /\ Len(result.spans) <= MaxSpans
    /\ source' = result.source
    /\ spans' = result.spans

InsertStr ==
    \E idx \in 0..Len(source), text \in Strings(MaxText), mode \in Modes :
        LET r == insert_str(Self, idx, text, mode) IN
        /\ Called("insert_str", [idx |-> idx, text |-> text, mode |-> mode])
        /\ Becomes(r)
        /\ status' = IF r.panicked THEN "panicked" ELSE "ok"
        /\ out' = None

AddSpanIntersect ==
    \E r \in Ranges(Len(source)), st \in Styles :
        LET new_span == new_range(r, st) IN
        /\ Called("add_span_intersect", [new_span |-> new_span])
        /\ Becomes(StyledString(source, add_span_intersect(Self, new_span)))
        /\ UNCHANGED status
        /\ out' = None

\* The values append is given: a plain text, or a text styled as a whole
\* (single_span).
Others ==
    {From(t) : t \in Strings(MaxText)} \cup
    {StyledString(t, <<new_range(Range(0, Len(t)), st)>>) :
        t \in Strings(MaxText), st \in Styles}

AppendOther ==
    \E other \in Others :
        /\ Called("append", [other |-> other])
        /\ Becomes(append(Self, other))
        /\ UNCHANGED status
        /\ out' = None

AppendStyled ==
    \E text \in Strings(MaxText), st \in Styles :
        /\ Called("append_styled", [text |-> text, style |-> st])
        /\ Becomes(append_styled(Self, text, st))
        /\ UNCHANGED status
        /\ out' = None

\* The receiver of a replace is left as it is and the caller goes on with the
\* result (Escapes::apply: styled = new_styled).
SimpleReplace ==
    \E from \in Strings(MaxText), to \in Strings(MaxText) :
        LET r == simple_replace(Self, from, to) IN
        /\ Called("simple_replace", [from |-> from, to |-> to])
        /\ Becomes(r)
        /\ UNCHANGED status
        /\ out' = r

ReplaceStyled ==
    \E from \in Strings(MaxText), to \in Strings(MaxText) :
        LET r == replace_styled(Self, from, to) IN
        /\ Called("replace_styled", [from |-> from, to |-> to])
        /\ Becomes(r)
        /\ UNCHANGED status
        /\ out' = r

Replace ==
    \E from \in Strings(MaxText), to \in Strings(MaxText) :
        LET r == replace(Self, from, to) IN
        /\ Called("replace", [from |-> from, to |-> to])
        /\ Becomes(r)
        /\ UNCHANGED status
        /\ out' = r

\* The conversion consumes the value: nothing is applied after it.
IntoCursive ==
    LET r == into(Self) IN
    /\ Called("into", NoArg)
    /\ UNCHANGED <<source, spans>>
    /\ out' = r.spans
    /\ status' = IF r.panicked THEN "panicked" ELSE "converted"

Next ==
    \/ InsertStr
    \/ AddSpanIntersect
    \/ AppendOther
    \/ AppendStyled
    \/ SimpleReplace
    \/ ReplaceStyled
    \/ Replace
    \/ IntoCursive

Spec == Init /\ [][Next]_vars

-----------------------------------------------------------------------------
(* SpecRange: the interval algebra applied to every pair of ranges over    *)
(* 0..MaxPos.                                                              *)

InitRange ==
    /\ arg \in [r1 : Ranges(MaxPos), r2 : Ranges(MaxPos)]
    /\ op = "args"
    /\ source = << >>
    /\ spans = << >>
    /\ pre = From(<< >>)
    /\ out = None
    /\ status = "ok"
    /\ steps = 0
    /\ hist = << >>

RangeIntersection ==
    /\ op = "args"
    /\ op' = "range_intersection"
    /\ out' = range_intersection(arg.r1, arg.r2)
    /\ UNCHANGED <<source, spans, pre, arg, status, steps, hist>>

RangeRemove ==
    /\ op = "args"
    /\ op' = "range_remove"
    /\ out' = range_remove(arg.r1, arg.r2)
    /\ UNCHANGED <<source, spans, pre, arg, status, steps, hist>>

NextRange ==
    \/ RangeIntersection
    \/ RangeRemove

SpecRange == InitRange /\ [][NextRange]_vars

\* The byte positions of a range.
Positions(r) == r.start .. (r.end - 1)

\* The positions of an Option<Range>.
OptPositions(o) == IF IsSome(o) THEN Positions(Unwrap(o)) ELSE {}

(* C7: range_intersection is commutative, returns r for two copies of a    *)
(* non-empty r, None when either range is empty, None for touching ranges  *)
(* a..b and b..c; a returned range is max(starts)..min(ends), is non-empty *)
(* and holds exactly the positions the two ranges share.                   *)
C7_IntersectionCorrect ==
    op = "range_intersection" =>
        LET r1 == arg.r1
            r2 == arg.r2
        IN /\ out = range_intersection(r2, r1)
           /\ (r1 = r2 /\ r1.start < r1.end => out = Some(r1))
           /\ (~(r1.start < r1.end) \/ ~(r2.start < r2.end) => out = None)
           /\ (r1.end = r2.start \/ r2.end = r1.start => out = None)
           /\ (IsSome(out) =>
                 /\ Unwrap(out) = Range(Max(r1.start, r2.start), Min(r1.end, r2.end))
                 /\ Unwrap(out).start < Unwrap(out).end)
           /\ OptPositions(out) = Positions(r1) \cap Positions(r2)
           /\ (IsSome(out) <=> Positions(r1) \cap Positions(r2) # {})

C7_Witness ==
    /\ op = "range_intersection"
    /\ arg.r1 = Range(1, 3)
    /\ arg.r2 = Range(2, 4)
    /\ out = Some(Range(2, 3))

(* C8: the remainders range_remove(r1, re) returns and                     *)
(* range_intersection(r1, re), each when present, are pairwise disjoint    *)
(* and together hold exactly the positions of r1.                          *)
C8_RemoveComplete ==
    op = "range_remove" =>
        LET left == OptPositions(out[1])
            right == OptPositions(out[2])
            mid == OptPositions(range_intersection(arg.r1, arg.r2))
        IN /\ left \cap right = {}
           /\ left \cap mid = {}
           /\ mid \cap right = {}
           /\ left \cup mid \cup right = Positions(arg.r1)

C8_Witness ==
    /\ op = "range_remove"
    /\ arg.r1 = Range(0, 4)
    /\ arg.r2 = Range(1, 3)
    /\ out = <<Some(Range(0, 1)), Some(Range(3, 4))>>

\* What C9 says of the case where neither of its first two cases applies.
C9_Split(r1, re) ==
    LET x == Unwrap(range_intersection(r1, re))
    IN << IF x.start > r1.start THEN Some(Range(r1.start, x.start)) ELSE None,
          IF x.end < r1.end THEN Some(Range(x.end, r1.end)) ELSE None >>

(* C9 as stated: (Some(r1), None) when re is empty and r1 is not, or when  *)
(* r1 and re do not intersect; (None, None) when r1 is empty or r1 = re;   *)
(* otherwise the left and right remainders around intersect(r1, re).       *)
C9_Original ==
    op = "range_remove" =>
        LET r1 == arg.r1
            re == arg.r2
            keep == \/ (range_is_empty(re) /\ ~range_is_empty(r1))
                    \/ ~IsSome(range_intersection(r1, re))
            gone == range_is_empty(r1) \/ r1 = re
        IN /\ (keep => out = <<Some(r1), None>>)
           /\ (gone => out = <<None, None>>)
           /\ (~keep /\ ~gone => out = C9_Split(r1, re))

(* C9 amended: (Some(r1), None) when r1 is non-empty and re is empty or    *)
(* does not intersect it; (None, None) when r1 is empty or r1 = re;        *)
(* otherwise the first component is r1.start..re'.start iff re'.start >    *)
(* r1.start and the second is re'.end..r1.end iff re'.end < r1.end, so a   *)
(* lone right remainder is the second component.                           *)
C9_RemoveCases ==
    op = "range_remove" =>
        LET r1 == arg.r1
            re == arg.r2
            keep == /\ ~range_is_empty(r1)
                    /\ \/ range_is_empty(re)
                       \/ ~IsSome(range_intersection(r1, re))
            gone == range_is_empty(r1) \/ r1 = re
        IN /\ (keep => out = <<Some(r1), None>>)
           /\ (gone => out = <<None, None>>)
           /\ (~keep /\ ~gone => out = C9_Split(r1, re))

C9_Witness ==
    /\ op = "range_remove"
    /\ arg.r1 = Range(0, 4)
    /\ arg.r2 = Range(0, 2)
    /\ out = <<None, Some(Range(2, 4))>>

-----------------------------------------------------------------------------
(* Inputs of the one-operation specifications.                             *)

Letters == <<"a", "b", "c", "d", "e", "f", "g", "h">>

\* A buffer of n bytes, all different.
Word(n) == SubSeq(Letters, 1, n)

\* Distinct attributes, to tell the spans of a list apart.
StyleList == <<simple_style, style2, style4, style3>>
StyleAt(i) == StyleList[((i - 1) % Len(StyleList)) + 1]

\* Every range a..b with a <= b over the positions 0..n.
ForwardRanges(n) == {r \in Ranges(n) : r.start <= r.end}

\* Every list of at most k spans over a buffer of n bytes, the i-th span
\* carrying the i-th attribute.
SpanLists(n, k) ==
    UNION {{[i \in 1..m |-> new_range(rs[i], StyleAt(i))] :
               rs \in [1..m -> ForwardRanges(n)]} : m \in 0..k}

\* The positions some span of the list covers.
Covered(sps) == UNION {Positions(sps[i].range) : i \in 1..Len(sps)}

\* No position is covered by two spans of the list.
NonOverlapping(sps) ==
    \A i \in 1..Len(sps), j \in 1..Len(sps) :
        i # j => Positions(sps[i].range) \cap Positions(sps[j].range) = {}

-----------------------------------------------------------------------------
(* SpecMerge: add_span_intersect called once on every value with_spans     *)
(* builds over a buffer of MergeLen bytes with at most MergeSpans spans.   *)

InitMerge ==
    /\ source = Word(MergeLen)
    /\ spans \in SpanLists(MergeLen, MergeSpans)
    /\ with_spans_ok(source, spans)
    /\ op = "with_spans"
    /\ pre = Self
    /\ arg = NoArg
    /\ out = None
    /\ status = "ok"
    /\ steps = 0
    /\ hist = << >>

MergeOnce ==
    \E r \in Ranges(Len(source)) :
        LET new_span == new_range(r, StyleAt(MergeSpans + 1)) IN
        /\ op = "with_spans"
        /\ op' = "add_span_intersect"
        /\ pre' = Self
        /\ arg' = [new_span |-> new_span]
        /\ spans' = add_span_intersect(Self, new_span)
        /\ steps' = steps + 1
        /\ UNCHANGED <<source, out, status, hist>>

NextMerge == MergeOnce

SpecMerge == InitMerge /\ [][NextMerge]_vars

-----------------------------------------------------------------------------
(* SpecChain: add_span_intersect called up to MaxAdds times, with non-empty *)
(* spans, on a span-less text of ChainLen bytes.                            *)

\* The case C6 is about: the stored spans do not overlap and cover one
\* interval lo..hi, in which the new span starts (or there are none).
SuchCall(sps, new_span) ==
    /\ ~span_is_empty(new_span)
    /\ NonOverlapping(sps)
    /\ Covered(sps) # {} =>
          \E lo \in Covered(sps), last \in Covered(sps) :
              /\ Covered(sps) = lo..last
              /\ lo <= new_span.range.start
              /\ new_span.range.start <= last + 1

InitChain ==
    /\ source = Word(ChainLen)
    /\ spans = << >>
    /\ op = "From"
    /\ pre = Self
    /\ arg = NoArg
    /\ out = None
    /\ status = "ok"
    /\ steps = 0
    /\ hist = << >>

MergeNext ==
    \E r \in ForwardRanges(Len(source)) :
        LET new_span == new_range(r, StyleAt(steps + 1)) IN
        /\ ~span_is_empty(new_span)
        /\ steps < MaxAdds
        /\ op' = "add_span_intersect"
        /\ pre' = Self
        /\ arg' = [new_span |-> new_span]
        /\ spans' = add_span_intersect(Self, new_span)
        /\ steps' = steps + 1
        /\ hist' = Append(hist, [span |-> new_span,
                                 such |-> SuchCall(spans, new_span)])
        /\ UNCHANGED <<source, out, status>>

NextChain == MergeNext

SpecChain == InitChain /\ [][NextChain]_vars

-----------------------------------------------------------------------------
(* SpecInsert: insert_str called once on every value with_spans builds     *)
(* over a buffer of at most InsLen bytes with at most InsSpans spans.      *)

InsTexts == {<< >>, <<"X">>, <<"X", "Y">>}

InitInsert ==
    /\ source \in {Word(n) : n \in 0..InsLen}
    /\ spans \in SpanLists(Len(source), InsSpans)
    /\ with_spans_ok(source, spans)
    /\ op = "with_spans"
    /\ pre = Self
    /\ arg = NoArg
    /\ out = None
    /\ status = "ok"
    /\ steps = 0
    /\ hist = << >>

InsertOnce ==
    \E idx \in 0..Len(source), text \in InsTexts, mode \in Modes :
        LET r == insert_str(Self, idx, text, mode) IN
        /\ op = "with_spans"
        /\ op' = "insert_str"
        /\ pre' = Self
        /\ arg' = [idx |-> idx, text |-> text, mode |-> mode]
        /\ source' = r.source
        /\ spans' = r.spans
        /\ status' = IF r.panicked THEN "panicked" ELSE "ok"
        /\ steps' = steps + 1
        /\ UNCHANGED <<out, hist>>

NextInsert == InsertOnce

SpecInsert == InitInsert /\ [][NextInsert]_vars

-----------------------------------------------------------------------------
(* Claims about the whole engine (Spec).                                   *)

\* Every span of the list ends inside a buffer of n bytes.
InBounds(sps, n) == \A i \in 1..Len(sps) : sps[i].range.end <= n

\* Every span of the list is a..b with a <= b <= n.
WellFormed(sps, n) ==
    \A i \in 1..Len(sps) :
        sps[i].range.start <= sps[i].range.end /\ sps[i].range.end <= n

(* C1: after any sequence of mutators applied to a value built by From or  *)
(* with_spans, every stored span satisfies end <= buffer length.           *)
C1_BoundsInvariant ==
    status = "ok" => InBounds(spans, Len(source))

(* C2: append(other) makes the buffer self.source followed by other.source *)
(* and appends other's spans, in order, after the existing ones, each      *)
(* shifted forward by the length self had before the append.               *)
C2_AppendShiftsByOldLength ==
    op = "append" =>
        LET L == Len(pre.source)
            o == arg.other
        IN /\ source = pre.source \o o.source
           /\ Len(spans) = Len(pre.spans) + Len(o.spans)
           /\ \A i \in 1..Len(pre.spans) : spans[i] = pre.spans[i]
           /\ \A i \in 1..Len(o.spans) :
                 spans[Len(pre.spans) + i] =
                     new_range(Range(L + o.spans[i].range.start,
                                     L + o.spans[i].range.end),
                               o.spans[i].attr)

(* C3: for every value whose spans are in bounds, in any list order,       *)
(* overlapping or not, the spans the conversion emits are pairwise         *)
(* non-overlapping and their union is exactly 0..buffer length.            *)
C3_FlattenTotal ==
    (op = "into" /\ WellFormed(pre.spans, Len(pre.source))) =>
        /\ status = "converted"
        /\ NonOverlapping(out)
        /\ Covered(out) = 0 .. (Len(source) - 1)

-----------------------------------------------------------------------------
(* Claims about add_span_intersect (SpecMerge, SpecChain).                 *)

(* C4: after add_span_intersect(new) with a non-empty new span, every      *)
(* position covered by an existing span before the call or by new's range  *)
(* is covered by a span of the resulting list.                             *)
C4_MergeCoverage ==
    (op = "add_span_intersect" /\ ~span_is_empty(arg.new_span)) =>
        (Covered(pre.spans) \cup Positions(arg.new_span.range)) \subseteq Covered(spans)

\* Whether two ranges share a position.
Intersects(r1, r2) == Positions(r1) \cap Positions(r2) # {}

\* The range two intersecting ranges share.
Shared(r1, r2) == Range(Max(r1.start, r2.start), Min(r1.end, r2.end))

\* What C5 says an existing span e leaves behind: its part left of the
\* intersection, the intersection with the combined attribute, its part
\* right of the intersection.
C5_Pieces(e, new_span) ==
    LET x == Shared(e.range, new_span.range) IN
    (IF e.range.start < x.start
     THEN <<new_range(Range(e.range.start, x.start), e.attr)>> ELSE << >>)
    \o <<new_range(x, combine(e.attr, new_span.attr))>>
    \o (IF x.end < e.range.end
        THEN <<new_range(Range(x.end, e.range.end), e.attr)>> ELSE << >>)

\* The spans the first j existing spans leave in the result.
RECURSIVE C5_Before(_, _, _)
C5_Before(old, j, new_span) ==
    IF j = 0 THEN 0
    ELSE C5_Before(old, j - 1, new_span)
         + (IF Intersects(old[j].range, new_span.range)
            THEN Len(C5_Pieces(old[j], new_span)) ELSE 1)

(* C5: for every existing span e whose range intersects new's range, the   *)
(* result holds, in e's list position and in this order: e's part left of  *)
(* the intersection (if non-empty) with e's attribute, the intersection    *)
(* with combine(e.attr, new.attr), e's part right of it (if non-empty)     *)
(* with e's attribute.                                                     *)
C5_MergePieces ==
    op = "add_span_intersect" =>
        \A j \in 1..Len(pre.spans) :
            Intersects(pre.spans[j].range, arg.new_span.range) =>
                LET pieces == C5_Pieces(pre.spans[j], arg.new_span)
                    before == C5_Before(pre.spans, j - 1, arg.new_span)
                IN /\ before + Len(pieces) <= Len(spans)
                   /\ SubSeq(spans, before + 1, before + Len(pieces)) = pieces

C5_Witness ==
    /\ op = "add_span_intersect"
    /\ pre.spans = <<new_range(Range(3, 4), simple_style),
                     new_range(Range(0, 3), style2)>>
    /\ arg.new_span = new_range(Range(1, 2), style4)
    /\ spans = <<new_range(Range(3, 4), simple_style),
                 new_range(Range(0, 1), style2),
                 new_range(Range(1, 2), Style({"Bold"}, "ColorY")),
                 new_range(Range(2, 3), style2)>>

\* The attribute of the span covering position p.
AttrAt(sps, p) == sps[CHOOSE i \in 1..Len(sps) : contains(sps[i], p)].attr

\* The reference model: the attributes of the first k spans of h that were
\* added over position p, combined in the order they were added (<< >> when
\* there is none).
RECURSIVE RefAttr(_, _, _)
RefAttr(h, k, p) ==
    IF k = 0 THEN None
    ELSE LET before == RefAttr(h, k - 1, p)
             s == h[k].span
         IN IF ~range_contains(s.range, p) THEN before
            ELSE IF IsSome(before) THEN Some(combine(Unwrap(before), s.attr))
            ELSE Some(s.attr)

(* C6: when the stored spans are pairwise non-overlapping and cover one    *)
(* interval lo..hi (or there are none) and the non-empty new span starts   *)
(* in lo..hi, then after add_span_intersect the list is pairwise           *)
(* non-overlapping, covers lo..max(hi, new.end) with no hole, and every    *)
(* position holds what it held before, combined with new's attribute where *)
(* new covers it; after a sequence of such calls on a span-less text every *)
(* position holds the combination of the attributes of the spans added     *)
(* over it.                                                                *)
C6_MergeRefinesReference ==
    (op = "add_span_intersect" /\ hist[Len(hist)].such) =>
        LET new_span == arg.new_span
            old == pre.spans
            all == Covered(old) \cup Positions(new_span.range)
        IN /\ NonOverlapping(spans)
           /\ Covered(spans) = all
           /\ \A p \in all : \A q \in all : \A m \in p..q : m \in Covered(spans)
           /\ \A p \in all :
                 AttrAt(spans, p) =
                     IF p \notin Positions(new_span.range) THEN AttrAt(old, p)
                     ELSE IF p \in Covered(old)
                          THEN combine(AttrAt(old, p), new_span.attr)
                          ELSE new_span.attr
           /\ (\A k \in 1..Len(hist) : hist[k].such) =>
                 \A p \in 0..(Len(source) - 1) :
                     LET ref == RefAttr(hist, Len(hist), p) IN
                     /\ p \in Covered(spans) <=> IsSome(ref)
                     /\ IsSome(ref) => AttrAt(spans, p) = Unwrap(ref)

C6_Witness ==
    /\ op = "add_span_intersect"
    /\ \A k \in 1..Len(hist) : hist[k].such
    /\ Len(hist) = 3
    /\ hist[1].span.range = Range(0, 3)
    /\ hist[2].span.range = Range(1, 4)
    /\ hist[3].span.range = Range(2, 5)
    /\ spans = <<new_range(Range(0, 1), simple_style),
                 new_range(Range(1, 2), Style({"Underline"}, "ColorX")),
                 new_range(Range(2, 3), Style({"Underline", "Bold"}, "ColorY")),
                 new_range(Range(3, 4), Style({"Bold"}, "ColorY")),
                 new_range(Range(4, 5), style4)>>

-----------------------------------------------------------------------------
(* Claims about insert_str (SpecInsert).                                   *)

\* The position in the list of the first span containing idx, 0 when no span
\* does.
FirstContaining(sps, idx) ==
    IF \E i \in 1..Len(sps) : range_contains(sps[i].range, idx)
    THEN CHOOSE i \in 1..Len(sps) :
             /\ range_contains(sps[i].range, idx)
             /\ \A j \in 1..(i - 1) : ~range_contains(sps[j].range, idx)
    ELSE 0

(* C10: insert_str(idx, text, BreakApart) with 0 <= idx <= length makes    *)
(* the buffer old[0..idx] + text + old[idx..]; the first span s in list    *)
(* order that contains idx is replaced in place by s.start..idx (omitted   *)
(* when idx = s.start) followed by idx+len(text)..s.end+len(text), both    *)
(* with s's attribute, and the spans earlier in the list are unchanged.    *)
C10_InsertBreakApart ==
    (op = "insert_str" /\ arg.mode = "BreakApart") =>
        LET idx == arg.idx
            n == Len(arg.text)
            old == pre.source
            k == FirstContaining(pre.spans, idx)
        IN /\ status = "ok"
           /\ Len(source) = Len(old) + n
           /\ \A p \in 1..idx : source[p] = old[p]
           /\ \A p \in 1..n : source[idx + p] = arg.text[p]
           /\ \A p \in (idx + 1)..Len(old) : source[p + n] = old[p]
           /\ k > 0 =>
                 LET s == pre.spans[k]
                     left == IF idx = s.range.start THEN 0 ELSE 1
                 IN /\ Len(spans) = Len(pre.spans) + left
                    /\ \A i \in 1..(k - 1) : spans[i] = pre.spans[i]
                    /\ left = 1 =>
                          spans[k] = new_range(Range(s.range.start, idx), s.attr)
                    /\ spans[k + left] =
                          new_range(Range(idx + n, s.range.end + n), s.attr)

C10_Witness ==
    /\ op = "insert_str"
    /\ arg = [idx |-> 1, text |-> <<"X">>, mode |-> "BreakApart"]
    /\ pre = StyledString(<<"a", "b">>, <<new_range(Range(0, 2), simple_style)>>)
    /\ source = <<"a", "X", "b">>
    /\ spans = <<new_range(Range(0, 1), simple_style),
                 new_range(Range(2, 3), simple_style)>>

\* The buffer is old with text inserted at byte idx.
Inserted(new, old, idx, text) ==
    /\ Len(new) = Len(old) + Len(text)
    /\ \A p \in 1..idx : new[p] = old[p]
    /\ \A p \in 1..Len(text) : new[idx + p] = text[p]
    /\ \A p \in (idx + 1)..Len(old) : new[p + Len(text)] = old[p]

(* C11: when no span contains idx (idx in a gap, at a span's end, or only  *)
(* empty spans), insert_str changes only the buffer: the span list is left *)
(* exactly as it was, in BreakApart and in Extend mode, even for spans     *)
(* that lie after idx.                                                     *)
C11_InsertOutsideSpans ==
    (op = "insert_str" /\ FirstContaining(pre.spans, arg.idx) = 0) =>
        /\ status = "ok"
        /\ spans = pre.spans
        /\ Inserted(source, pre.source, arg.idx, arg.text)

C11_Witness ==
    /\ op = "insert_str"
    /\ arg = [idx |-> 0, text |-> <<"X">>, mode |-> "Extend"]
    /\ pre = StyledString(<<"a", "b">>, <<new_range(Range(1, 2), simple_style)>>)
    /\ source = <<"X", "a", "b">>
    /\ spans = <<new_range(Range(1, 2), simple_style)>>
    /\ status = "ok"

(* C12: after insert_str(idx, text, BreakApart) on a value with in-bounds  *)
(* spans, no span of the resulting list covers a byte position in          *)
(* idx..idx+len(text).                                                     *)
C12_InsertedTextUnstyled ==
    (/\ op = "insert_str"
     /\ arg.mode = "BreakApart"
     /\ WellFormed(pre.spans, Len(pre.source))) =>
        Covered(spans) \cap (arg.idx .. (arg.idx + Len(arg.text) - 1)) = {}

-----------------------------------------------------------------------------
(* SpecConstruct: From and with_spans called on every text of at most      *)
(* ConsLen bytes and every list of at most ConsSpans spans over the        *)
(* positions 0..ConsLen+1, out-of-bounds and reversed ranges included.     *)

InitConstruct ==
    /\ arg \in {[source |-> Word(n), spans |-> sps] :
                   n \in 0..ConsLen,
                   sps \in UNION {{[i \in 1..m |-> new_range(rs[i], StyleAt(i))] :
                                      rs \in [1..m -> Ranges(ConsLen + 1)]} :
                                  m \in 0..ConsSpans}}
    /\ op = "args"
    /\ source = << >>
    /\ spans = << >>
    /\ pre = From(<< >>)
    /\ out = None
    /\ status = "ok"
    /\ steps = 0
    /\ hist = << >>

WithSpans ==
    LET r == with_spans(arg.source, arg.spans) IN
    /\ op = "args"
    /\ op' = "with_spans"
    /\ source' = r.source
    /\ spans' = r.spans
    /\ status' = IF r.panicked THEN "panicked" ELSE "ok"
    /\ UNCHANGED <<pre, arg, out, steps, hist>>

FromText ==
    LET r == From(arg.source) IN
    /\ op = "args"
    /\ op' = "From"
    /\ source' = r.source
    /\ spans' = r.spans
    /\ UNCHANGED <<pre, arg, out, status, steps, hist>>

NextConstruct ==
    \/ WithSpans
    \/ FromText

SpecConstruct == InitConstruct /\ [][NextConstruct]_vars

(* C14: with_spans(source, spans) fails fatally if a span's end exceeds    *)
(* the buffer length and otherwise returns a value holding the source and  *)
(* the span list unchanged; every successfully constructed value has all   *)
(* spans satisfying start <= end <= buffer length.                         *)
C14_ConstructionValidates ==
    op = "with_spans" =>
        /\ status = "panicked" <=>
              \E i \in 1..Len(arg.spans) : arg.spans[i].range.end > Len(arg.source)
        /\ status = "ok" =>
              /\ source = arg.source
              /\ spans = arg.spans
              /\ \A i \in 1..Len(spans) :
                    /\ spans[i].range.start <= spans[i].range.end
                    /\ spans[i].range.end <= Len(source)

\* No span of the list has start == end.
NoEmptySpan(sps) == \A i \in 1..Len(sps) : sps[i].range.start # sps[i].range.end

(* C15: no mutator ever stores an empty span: when the span list has no    *)
(* span with start == end, then after insert_str (BreakApart), append (of  *)
(* a value that has no such span either), append_styled (with any text,    *)
(* the empty string included) or add_span_intersect the span list still    *)
(* has no span with start == end.                                          *)
C15_NoEmptySpanStored ==
    (/\ \/ op = "insert_str" /\ arg.mode = "BreakApart"
        \/ op = "append" /\ NoEmptySpan(arg.other.spans)
        \/ op = "append_styled"
        \/ op = "add_span_intersect"
     /\ status = "ok"
     /\ NoEmptySpan(pre.spans)) =>
        NoEmptySpan(spans)

-----------------------------------------------------------------------------
(* SpecReplace: one literal replace on every buffer of at most RepLen      *)
(* bytes over RepChars that carries at most RepSpans spans, for every      *)
(* pattern of at most MaxFrom bytes.  The receiver is borrowed (&self), so *)
(* source and spans stay and the returned value is out.                    *)

RepChars == {"o", "1"}

RepStrings(n) == UNION {[1..k -> RepChars] : k \in 0..n}

\* The replacement texts: empty, one byte, two bytes.
RepTexts == {<< >>, <<"z">>, <<"1", "o">>}

InitReplace ==
    /\ source \in RepStrings(RepLen)
    /\ spans \in SpanLists(Len(source), RepSpans)
    /\ op = "with_spans"
    /\ pre = StyledString(source, spans)
    /\ arg = NoArg
    /\ out = None
    /\ status = "ok"
    /\ steps = 0
    /\ hist = << >>

Replaced(name, from, to, r) ==
    /\ op = "with_spans"
    /\ op' = name
    /\ arg' = [from |-> from, to |-> to]
    /\ out' = r
    /\ UNCHANGED <<source, spans, pre, status, steps, hist>>

SimpleReplaceOnce ==
    \E from \in RepStrings(MaxFrom), to \in RepTexts :
        Replaced("simple_replace", from, to, simple_replace(Self, from, to))

ReplaceStyledOnce ==
    \E from \in RepStrings(MaxFrom), to \in RepTexts :
        Replaced("replace_styled", from, to, replace_styled(Self, from, to))

ReplaceOnce ==
    \E from \in RepStrings(MaxFrom), to \in RepTexts :
        Replaced("replace", from, to, replace(Self, from, to))

NextReplace ==
    \/ SimpleReplaceOnce
    \/ ReplaceStyledOnce
    \/ ReplaceOnce

SpecReplace == InitReplace /\ [][NextReplace]_vars

\* The text s with every occurrence of from, found left to right without
\* overlap, replaced by to; from is non-empty.
RECURSIVE RefReplace(_, _, _)
RefReplace(s, from, to) ==
    IF Len(s) < Len(from) THEN s
    ELSE IF SubSeq(s, 1, Len(from)) = from
    THEN to \o RefReplace(SubSeq(s, Len(from) + 1, Len(s)), from, to)
    ELSE <<Head(s)>> \o RefReplace(Tail(s), from, to)

(* C16: simple_replace(from, to) with a non-empty from returns a value     *)
(* with zero spans whose buffer is the original with every occurrence of   *)
(* from, found left to right without overlap, replaced by to and all other *)
(* bytes kept in order; the receiver is not modified.                      *)
C16_SimpleReplace ==
    (op = "simple_replace" /\ arg.from # << >>) =>
        /\ out.spans = << >>
        /\ out.source = RefReplace(pre.source, arg.from, arg.to)
        /\ source = pre.source
        /\ spans = pre.spans

\* "o1o" with "1" -> "" gives "oo", and "ooo" with "oo" -> "z" gives "zo".
C16_Witness ==
    /\ op = "simple_replace"
    /\ \/ /\ pre.source = <<"o", "1", "o">>
          /\ arg = [from |-> <<"1">>, to |-> << >>]
          /\ out.source = <<"o", "o">>
       \/ /\ pre.source = <<"o", "o", "o">>
          /\ arg = [from |-> <<"o", "o">>, to |-> <<"z">>]
          /\ out.source = <<"z", "o">>
    /\ pre.spans # << >>
    /\ out.spans = << >>

\* new is to, then each byte of old followed by to.
Interleaved(new, old, to) ==
    /\ Len(new) = Len(old) + (Len(old) + 1) * Len(to)
    /\ \A k \in 0..Len(old) : \A p \in 1..Len(to) :
          new[k * (Len(to) + 1) + p] = to[p]
    /\ \A k \in 1..Len(old) : new[k * (Len(to) + 1)] = old[k]

(* C17: simple_replace with an empty from matches at every byte boundary:  *)
(* on a buffer of n bytes the result is to, then each original byte        *)
(* followed by to, of length n + (n+1)*len(to).                            *)
C17_EmptyPatternInterleaves ==
    (op = "simple_replace" /\ arg.from = << >>) =>
        /\ Interleaved(out.source, pre.source, arg.to)
        /\ out.spans = << >>

\* "o1" with "" -> "z" gives "zoz1z".
C17_Witness ==
    /\ op = "simple_replace"
    /\ pre.source = <<"o", "1">>
    /\ arg = [from |-> << >>, to |-> <<"z">>]
    /\ out.source = <<"z", "o", "z", "1", "z">>

(* C18: replace_styled(from, to), and replace, return the buffer that      *)
(* simple_replace(from, to) returns, for all inputs; when len(from) =      *)
(* len(to) the span list is the receiver's, unchanged, and every span is   *)
(* within the new buffer's bounds.                                         *)
C18_ReplaceStyledBuffer ==
    (op \in {"replace_styled", "replace"}) =>
        /\ out.source = simple_replace(pre, arg.from, arg.to).source
        /\ Len(arg.from) = Len(arg.to) =>
              /\ out.spans = pre.spans
              /\ Len(out.source) = Len(pre.source)
              /\ WellFormed(out.spans, Len(out.source))

\* "o1o" underlined on 1..3 with "1" -> "z" gives "ozo" underlined on 1..3.
C18_Witness ==
    /\ op = "replace_styled"
    /\ pre.source = <<"o", "1", "o">>
    /\ pre.spans = <<new_range(Range(1, 3), simple_style)>>
    /\ arg = [from |-> <<"1">>, to |-> <<"z">>]
    /\ out = StyledString(<<"o", "z", "o">>, pre.spans)

\* from occurs nowhere in s.
NotOccurs(s, from) ==
    \A p \in 0..(Len(s) - Len(from)) : SubSeq(s, p + 1, p + Len(from)) # from

(* C19: literal replace with no matches is a no-op: when from is non-empty *)
(* and does not occur in the buffer, simple_replace and replace_styled     *)
(* return the original buffer, and replace_styled returns a value equal to *)
(* the receiver.                                                           *)
C19_NoMatchNoOp ==
    (/\ op \in {"simple_replace", "replace_styled"}
     /\ arg.from # << >>
     /\ NotOccurs(pre.source, arg.from)) =>
        /\ out.source = pre.source
        /\ op = "replace_styled" => out = pre

\* "ooo" underlined on 0..2 has no "1": replace_styled returns it as it is.
C19_Witness ==
    /\ op = "replace_styled"
    /\ pre = StyledString(<<"o", "o", "o">>,
                          <<new_range(Range(0, 2), simple_style)>>)
    /\ arg = [from |-> <<"1">>, to |-> <<"z">>]
    /\ out = pre

(* C20: when the non-empty new span intersects no existing span (touching  *)
(* one at a boundary included), add_span_intersect leaves the buffer and   *)
(* every existing span unchanged and in its list position, and appends     *)
(* exactly one span equal to the new span at the end of the list.          *)
C20_NoOverlapAppends ==
    (/\ op = "add_span_intersect"
     /\ ~span_is_empty(arg.new_span)
     /\ \A i \in 1..Len(pre.spans) :
           ~Intersects(pre.spans[i].range, arg.new_span.range)) =>
        /\ source = pre.source
        /\ spans = Append(pre.spans, arg.new_span)

\* Underline on 0..2, then ColorY added on the adjacent 2..4.
C20_Witness ==
    /\ op = "add_span_intersect"
    /\ pre.spans = <<new_range(Range(0, 2), simple_style)>>
    /\ arg.new_span = new_range(Range(2, 4), StyleAt(MergeSpans + 1))
    /\ spans = <<new_range(Range(0, 2), simple_style),
                 new_range(Range(2, 4), StyleAt(MergeSpans + 1))>>

(* C21: add_span_intersect with an empty new span (start >= end) is a      *)
(* no-op: buffer and span list are exactly as before the call.             *)
C21_EmptyNewSpanNoOp ==
    (op = "add_span_intersect"
     /\ arg.new_span.range.start >= arg.new_span.range.end) =>
        /\ source = pre.source
        /\ spans = pre.spans

\* A reversed new span 3..1 laid over two stored spans that it crosses.
C21_Witness ==
    /\ op = "add_span_intersect"
    /\ arg.new_span.range = Range(3, 1)
    /\ pre.spans = <<new_range(Range(0, 2), simple_style),
                     new_range(Range(1, 4), style2)>>
    /\ spans = pre.spans

\* No two spans of the list have identical or overlapping ranges.
NoTwoAlike(sps) ==
    \A i \in 1..Len(sps), j \in 1..Len(sps) :
        i # j => /\ sps[i].range # sps[j].range
                 /\ ~Intersects(sps[i].range, sps[j].range)

(* C22: after add_span_intersect(new) on any value, the resulting span     *)
(* list contains no two spans with identical or overlapping ranges.        *)
C22_MergeResultDisjoint ==
    op = "add_span_intersect" => NoTwoAlike(spans)

-----------------------------------------------------------------------------
(* SpecEdit: one insert_str, append_styled or add_span_intersect on every  *)
(* value with_spans builds over a buffer of at most EditLen bytes with at  *)
(* most EditSpans spans, reversed ranges included.                         *)

\* Every list of at most k spans over the positions 0..n, in any direction.
AnySpanLists(n, k) ==
    UNION {{[i \in 1..m |-> new_range(rs[i], StyleAt(i))] :
               rs \in [1..m -> Ranges(n)]} : m \in 0..k}

InitEdit ==
    /\ source \in {Word(n) : n \in 0..EditLen}
    /\ spans \in AnySpanLists(Len(source), EditSpans)
    /\ with_spans_ok(source, spans)
    /\ op = "with_spans"
    /\ pre = Self
    /\ arg = NoArg
    /\ out = None
    /\ status = "ok"
    /\ steps = 0
    /\ hist = << >>

Edited(name, a, r) ==
    /\ op = "with_spans"
    /\ op' = name
    /\ pre' = Self
    /\ arg' = a
    /\ source' = r.source
    /\ spans' = r.spans
    /\ steps' = steps + 1
    /\ UNCHANGED <<out, hist>>

EditInsertStr ==
    \E idx \in 0..Len(source), text \in InsTexts, mode \in Modes :
        LET r == insert_str(Self, idx, text, mode) IN
        /\ Edited("insert_str", [idx |-> idx, text |-> text, mode |-> mode], r)
        /\ status' = IF r.panicked THEN "panicked" ELSE "ok"

EditAppendStyled ==
    \E text \in InsTexts, st \in Styles :
        /\ Edited("append_styled", [text |-> text, style |-> st],
                  append_styled(Self, text, st))
        /\ UNCHANGED status

EditAddSpanIntersect ==
    \E r \in Ranges(Len(source) + 1) :
        LET new_span == new_range(r, StyleAt(EditSpans + 1)) IN
        /\ r.end <= Len(source)
        /\ Edited("add_span_intersect", [new_span |-> new_span],
                  StyledString(source, add_span_intersect(Self, new_span)))
        /\ UNCHANGED status

NextEdit ==
    \/ EditInsertStr
    \/ EditAppendStyled
    \/ EditAddSpanIntersect

SpecEdit == InitEdit /\ [][NextEdit]_vars

(* C23: append_styled(text, attr) appends text to the buffer, leaves every *)
(* existing span unchanged, and pushes exactly one span at the end of the  *)
(* list with the given attribute and the range oldLength..oldLength +      *)
(* len(text), the appended bytes.                                          *)
C23_AppendStyled ==
    op = "append_styled" =>
        LET L == Len(pre.source) IN
        /\ source = pre.source \o arg.text
        /\ spans = Append(pre.spans,
                          new_range(Range(L, L + Len(arg.text)), arg.style))
        /\ \A p \in 1..Len(arg.text) : source[L + p] = arg.text[p]

\* "ab" underlined on 0..1 gets "XY" in ColorX: the new span is 2..4.
C23_Witness ==
    /\ op = "append_styled"
    /\ pre = StyledString(<<"a", "b">>, <<new_range(Range(0, 1), simple_style)>>)
    /\ arg = [text |-> <<"X", "Y">>, style |-> style2]
    /\ source = <<"a", "b", "X", "Y">>
    /\ spans = <<new_range(Range(0, 1), simple_style),
                 new_range(Range(2, 4), style2)>>

(* C24: apart from out-of-bounds construction and Extend-mode insertion    *)
(* inside a span, no operation fails: on every value reached from From or  *)
(* with_spans by insert_str, append, append_styled, add_span_intersect     *)
(* with an in-bounds new span, simple_replace and replace_styled, each of  *)
(* these operations and the conversion to the render projection completes  *)
(* without a fatal error.                                                  *)
C24_NothingElseFails ==
    status = "panicked" =>
        /\ op = "insert_str"
        /\ arg.mode = "Extend"
        /\ FirstContaining(pre.spans, arg.idx) > 0

UsedEnd(sps, new_span) ==
    LET ends == {Min(sps[i].range.end, new_span.range.end) :
                    i \in {j \in 1..Len(sps) :
                              Intersects(sps[j].range, new_span.range)}}
    IN IF ends = {} THEN new_span.range.start
       ELSE CHOOSE m \in ends : \A e \in ends : e <= m

(* C26: in add_span_intersect the consumed part of the new span is the one *)
(* range new.start..M, M the largest intersection end seen (new.start when *)
(* nothing intersects): the only un-combined piece of the new span         *)
(* appended is M..new.end, if non-empty (the whole new span when nothing   *)
(* intersects), and a position of the new span before M that no existing   *)
(* span covers receives no span at all.                                    *)
C26_UsedPrefix ==
    (op = "add_span_intersect" /\ ~span_is_empty(arg.new_span)) =>
        LET new_span == arg.new_span
            M == UsedEnd(pre.spans, new_span)
            body == C5_Before(pre.spans, Len(pre.spans), new_span)
            rest == IF M < new_span.range.end
                    THEN <<new_range(Range(M, new_span.range.end), new_span.attr)>>
                    ELSE << >>
        IN /\ Len(spans) = body + Len(rest)
           /\ SubSeq(spans, body + 1, Len(spans)) = rest
           /\ \A p \in Positions(new_span.range) :
                 (p < M /\ p \notin Covered(pre.spans)) => p \notin Covered(spans)

\* 1..2 and 3..4 stored, 0..4 added: M is 4, nothing of the new span is
\* appended, and the positions 0 and 2 of the new span get no span.
C26_Witness ==
    /\ op = "add_span_intersect"
    /\ pre.spans = <<new_range(Range(1, 2), simple_style),
                     new_range(Range(3, 4), style2)>>
    /\ arg.new_span.range = Range(0, 4)
    /\ Len(spans) = 2
    /\ Covered(spans) = {1, 3}

(* C27: insert_str (BreakApart, 0 <= idx <= length), append_styled and     *)
(* add_span_intersect (with a new span whose end <= buffer length) each    *)
(* preserve the bounds invariant: if every span has end <= buffer length   *)
(* before the call, the same holds after it.                               *)
C27_BoundsPreserved ==
    (/\ \/ op = "insert_str" /\ arg.mode = "BreakApart"
        \/ op = "append_styled"
        \/ op = "add_span_intersect" /\ arg.new_span.range.end <= Len(pre.source)
     /\ InBounds(pre.spans, Len(pre.source))) =>
        /\ status = "ok"
        /\ InBounds(spans, Len(source))

\* "ab" with 0..2 and 1..2: "XY" inserted at 1 splits 0..2 and shifts 1..2
\* to 3..4, the end of the new buffer.
C27_Witness ==
    /\ op = "insert_str"
    /\ arg = [idx |-> 1, text |-> <<"X", "Y">>, mode |-> "BreakApart"]
    /\ pre.source = <<"a", "b">>
    /\ pre.spans = <<new_range(Range(0, 2), simple_style),
                     new_range(Range(1, 2), style2)>>
    /\ spans = <<new_range(Range(0, 1), simple_style),
                 new_range(Range(3, 4), simple_style),
                 new_range(Range(3, 4), style2)>>
    /\ Len(source) = 4

(* C28: pairwise non-overlap is an inductive invariant of merging: if the  *)
(* stored spans are pairwise non-overlapping, then after                   *)
(* add_span_intersect(new) with any non-empty new span the resulting spans *)
(* are pairwise non-overlapping (hence no sequence of add_span_intersect   *)
(* calls on a span-less value produces two overlapping spans).             *)
C28_NonOverlapInductive ==
    (/\ op = "add_span_intersect"
     /\ ~span_is_empty(arg.new_span)
     /\ NonOverlapping(pre.spans)) =>
        NonOverlapping(spans)

\* 2..4 and 0..1 stored, 0..3 added: the new span crosses both and the gap.
C28_Witness ==
    /\ op = "add_span_intersect"
    /\ pre.spans = <<new_range(Range(2, 4), simple_style),
                     new_range(Range(0, 1), style2)>>
    /\ arg.new_span.range = Range(0, 3)
    /\ NonOverlapping(spans)
    /\ Len(spans) = 3

-----------------------------------------------------------------------------
(* SpecFlatten: the conversion to the render projection applied to every   *)
(* value with_spans builds over a buffer of at most FlatLen bytes with at  *)
(* most FlatSpans spans, in any list order, overlapping or not.            *)

InitFlatten ==
    /\ source \in {Word(n) : n \in 0..FlatLen}
    /\ spans \in SpanLists(Len(source), FlatSpans)
    /\ with_spans_ok(source, spans)
    /\ op = "with_spans"
    /\ pre = Self
    /\ arg = NoArg
    /\ out = None
    /\ status = "ok"
    /\ steps = 0
    /\ hist = << >>

Flatten ==
    LET r == into(Self) IN
    /\ op = "with_spans"
    /\ op' = "into"
    /\ out' = r.spans
    /\ status' = IF r.panicked THEN "panicked" ELSE "converted"
    /\ steps' = steps + 1
    /\ UNCHANGED <<source, spans, pre, arg, hist>>

NextFlatten == Flatten

SpecFlatten == InitFlatten /\ [][NextFlatten]_vars

\* The spans are non-empty, in bounds, pairwise non-overlapping and sorted by
\* start in list order.
Tidy(sps, n) ==
    /\ \A i \in 1..Len(sps) : sps[i].range.start < sps[i].range.end
    /\ InBounds(sps, n)
    /\ NonOverlapping(sps)
    /\ \A i \in 1..(Len(sps) - 1) : sps[i].range.start <= sps[i + 1].range.start

IsStyled(span) == span.attr # plain_style

(* C29: when the stored spans are non-empty, in bounds, pairwise           *)
(* non-overlapping and sorted by start in list order, the conversion emits *)
(* spans in ascending order that cover every byte of the buffer exactly    *)
(* once, each stored span emitted unchanged and every gap, the leading and *)
(* trailing ones included, filled by exactly one plain span.               *)
C29_FlattenTidy ==
    (op = "into" /\ Tidy(pre.spans, Len(pre.source))) =>
        /\ status = "converted"
        /\ \A j \in 1..Len(out) : out[j].range.start < out[j].range.end
        /\ \A j \in 1..(Len(out) - 1) : out[j].range.end = out[j + 1].range.start
        /\ Len(source) > 0 =>
              /\ Len(out) > 0
              /\ out[1].range.start = 0
              /\ out[Len(out)].range.end = Len(source)
        /\ Len(source) = 0 => out = << >>
        /\ NonOverlapping(out)
        /\ Covered(out) = 0 .. (Len(source) - 1)
        /\ SelectSeq(out, IsStyled) = pre.spans
        /\ \A j \in 1..(Len(out) - 1) : ~IsStyled(out[j]) => IsStyled(out[j + 1])

\* "abc" with 1..2 underlined: plain 0..1, the span, plain 2..3.
C29_Witness ==
    /\ op = "into"
    /\ pre = StyledString(<<"a", "b", "c">>,
                          <<new_range(Range(1, 2), simple_style)>>)
    /\ status = "converted"
    /\ out = <<new_range(Range(0, 1), plain_style),
               new_range(Range(1, 2), simple_style),
               new_range(Range(2, 3), plain_style)>>

-----------------------------------------------------------------------------
(* SpecMatch: match_replaced_indices collected on every receiver of        *)
(* SpecReplace, for every pattern of at most MaxFrom bytes.                *)

MatchReplacedIndices ==
    \E from \in RepStrings(MaxFrom), to \in RepTexts :
        Replaced("match_replaced_indices", from, to,
                 match_replaced_indices(Self, from, to))

NextMatch == MatchReplacedIndices

SpecMatch == InitReplace /\ [][NextMatch]_vars

\* How many occurrences of from a left-to-right scan without overlap finds in
\* s; the empty pattern occurs at every boundary.
RECURSIVE RefCount(_, _)
RefCount(s, from) ==
    IF from = << >> THEN Len(s) + 1
    ELSE IF Len(s) < Len(from) THEN 0
    ELSE IF SubSeq(s, 1, Len(from)) = from
    THEN 1 + RefCount(SubSeq(s, Len(from) + 1, Len(s)), from)
    ELSE RefCount(Tail(s), from)

\* The bytes of s a range start..end names; a marker that equals no text
\* when the range is reversed or out of bounds.
Slice(s, r) ==
    IF r.start <= r.end /\ r.end <= Len(s) THEN SubSeq(s, r.start + 1, r.end)
    ELSE <<"out of bounds">>

(* C30: match_replaced_indices(from, to) yields, for each match in left to *)
(* right order, a pair (from_range, to_range) such that the original       *)
(* buffer restricted to from_range equals from and the buffer produced by  *)
(* simple_replace(from, to) restricted to to_range equals to; the          *)
(* to_ranges are pairwise disjoint and ascending, and there is exactly one *)
(* pair per occurrence replaced by simple_replace.                         *)
C30_MatchReplacedIndices ==
    op = "match_replaced_indices" =>
        LET res == simple_replace(pre, arg.from, arg.to).source IN
        /\ Len(out) = RefCount(pre.source, arg.from)
        /\ Len(res) = Len(pre.source) + Len(out) * (Len(arg.to) - Len(arg.from))
        /\ \A k \in 1..Len(out) :
              /\ Slice(pre.source, out[k].from_range) = arg.from
              /\ Slice(res, out[k].to_range) = arg.to
        /\ \A k \in 1..(Len(out) - 1) :
              /\ out[k].from_range.end <= out[k + 1].from_range.start
              /\ out[k].to_range.end <= out[k + 1].to_range.start

\* "1o1" with "1" -> "1o": matches at 0..1 and 2..3, written at 0..2 and
\* 3..5 of "1oo1o".
C30_Witness ==
    /\ op = "match_replaced_indices"
    /\ pre.source = <<"1", "o", "1">>
    /\ arg = [from |-> <<"1">>, to |-> <<"1", "o">>]
    /\ out = <<[from_range |-> Range(0, 1), to_range |-> Range(0, 2)],
               [from_range |-> Range(2, 3), to_range |-> Range(3, 5)]>>

====
